---- MODULE Spec2Model ----
(***************************************************************************)
(* Model of the natural-language-to-SQL tool of src/app.py: the extraction *)
(* of one SQL statement from a model completion (generate_sql_qwen) and    *)
(* the question cycle that executes it against the SQLite store.           *)
(*                                                                         *)
(* Text is a sequence of lexical tokens.  A token stands for the run of    *)
(* characters written in its string: "SELECT" and "drop" are recognized    *)
(* keywords in upper and lower case, "a" is any other word character, " "  *)
(* and "\n" are the white space, ";" the statement terminator, "FENCE" is  *)
(* the markdown fence of three backquotes and "FENCEsql" the same fence    *)
(* followed by sql, "SQL:" is the label and "<think>", "</think>" are the  *)
(* reasoning tags.  Adjacent tokens are adjacent characters:               *)
(* <<"SELECT", "a">> is the word SELECTa.                                  *)
(***************************************************************************)
EXTENDS Integers, Sequences, FiniteSets, TLC

VARIABLES
    pc,              \* position in the script / in generate_sql_qwen
    user_question,   \* app.py:129   the text input
    completion,      \* app.py:60    response['message']['content']
    raw_llm_output,  \* app.py:61
    cleaned_output,  \* app.py:69-71
    sql_match,       \* app.py:77    None or the span of the match
    sql_keywords,    \* app.py:92    "unbound" until the fallback branch binds it
    final_sql,       \* app.py:83
    caught,          \* app.py:115   the exception the except clause handled
    generated_sql,   \* app.py:138
    conn,            \* app.py:144   "None", "open" or "closed"
    openConns,       \* number of SQLite connections currently open
    results,         \* app.py:149   "unset", "rows" or "empty"
    exc,             \* exception in flight, "none" when there is none
    ui               \* what the page shows for the last question

vars == <<pc, user_question, completion, raw_llm_output, cleaned_output,
          sql_match, sql_keywords, final_sql, caught, generated_sql,
          conn, openConns, results, exc, ui>>

-----------------------------------------------------------------------------
(* Bounds of the input space *)

MaxLen == 4
MaxTail == 4
MaxReason == 3
MaxConns == 2

\* the value None of app.py; a match is the span of its first and last token
None == [start |-> 0, end |-> 0]

-----------------------------------------------------------------------------
(* Tokens *)

Alphabet ==
    {"SELECT", "drop", "a", " ", "\n", ";", "FENCE", "FENCEsql", "SQL:", "<think>"}

IsSpace(t) == t \in {" ", "\n"}

IsThinkTag(t) == t \in {"<think>", "</think>"}

IsFenceOrLabel(t) == t \in {"FENCEsql", "FENCE", "SQL:"}

Lower(t) ==
    CASE t = "SELECT" -> "select"
      [] t = "INSERT" -> "insert"
      [] t = "UPDATE" -> "update"
      [] t = "DELETE" -> "delete"
      [] t = "CREATE" -> "create"
      [] t = "ALTER"  -> "alter"
      [] t = "DROP"   -> "drop"
      [] t = "SQL:"   -> "sql:"
      [] OTHER        -> t

SqlKeywordList ==
    <<"select", "insert", "update", "delete", "create", "alter", "drop">>

IsKeyword(t) == \E i \in 1..Len(SqlKeywordList) : Lower(t) = SqlKeywordList[i]

-----------------------------------------------------------------------------
(* str.strip, str.split, str.join, str.startswith, str.endswith *)

RECURSIVE LStrip(_)
LStrip(s) ==
    IF s = <<>> THEN s
    ELSE IF IsSpace(Head(s)) THEN LStrip(Tail(s)) ELSE s

RECURSIVE RStrip(_)
RStrip(s) ==
    IF s = <<>> THEN s
    ELSE IF IsSpace(s[Len(s)]) THEN RStrip(SubSeq(s, 1, Len(s) - 1)) ELSE s

Strip(s) == RStrip(LStrip(s))

EndsWith(s, t) == s # <<>> /\ s[Len(s)] = t

StartsWithKeyword(s) == s # <<>> /\ IsKeyword(Head(s))

RECURSIVE SplitLines(_)
SplitLines(s) ==
    IF \A i \in 1..Len(s) : s[i] # "\n" THEN <<s>>
    ELSE LET n == CHOOSE i \in 1..Len(s) :
                      s[i] = "\n" /\ \A j \in 1..(i - 1) : s[j] # "\n"
         IN  <<SubSeq(s, 1, n - 1)>> \o SplitLines(SubSeq(s, n + 1, Len(s)))

RECURSIVE JoinSpace(_)
JoinSpace(ls) ==
    IF ls = <<>> THEN <<>>
    ELSE IF Len(ls) = 1 THEN ls[1]
    ELSE ls[1] \o <<" ">> \o JoinSpace(Tail(ls))

AtLineStart(s, i) == i = 1 \/ s[i - 1] = "\n"

RECURSIVE SkipSpaces(_, _)
SkipSpaces(s, i) ==
    IF i <= Len(s) /\ IsSpace(s[i]) THEN SkipSpaces(s, i + 1) ELSE i

-----------------------------------------------------------------------------
(* Noise stripping, app.py:69-71 *)

RemoveThinkTagsWithContent(s) ==
    IF \E i \in 1..Len(s) : s[i] = "</think>"
    THEN LET k == CHOOSE i \in 1..Len(s) :
                      s[i] = "</think>" /\ \A j \in 1..(i - 1) : s[j] # "</think>"
         IN  SelectSeq(SubSeq(s, k + 1, Len(s)), LAMBDA t : ~IsThinkTag(t))
    ELSE SelectSeq(s, LAMBDA t : ~IsThinkTag(t))

RemoveThinkTags(s) == SelectSeq(s, LAMBDA t : ~IsThinkTag(t))

RECURSIVE SubLinePrefixes(_, _)
SubLinePrefixes(s, i) ==
    IF i > Len(s) THEN <<>>
    ELSE IF AtLineStart(s, i) /\ s[i] = "FENCE" /\ i < Len(s) /\ s[i + 1] = "SQL:"
         \* the alternative FENCEsql matches the fence and SQL, and leaves the colon
         THEN <<":">> \o SubLinePrefixes(s, i + 2)
    ELSE IF AtLineStart(s, i) /\ IsFenceOrLabel(s[i])
         THEN SubLinePrefixes(s, SkipSpaces(s, i + 1))
         ELSE <<s[i]>> \o SubLinePrefixes(s, i + 1)

NoiseStripped(raw) ==
    Strip(SubLinePrefixes(Strip(RemoveThinkTags(raw)), 1))

-----------------------------------------------------------------------------
(* Primary extraction, app.py:77-88 *)

KeywordAt(s, i) ==
    AtLineStart(s, i) /\ IsKeyword(s[i]) /\ i < Len(s) /\ IsSpace(s[i + 1])

KeywordAnywhere(s, i) ==
    IsKeyword(s[i]) /\ i < Len(s) /\ IsSpace(s[i + 1])

MatchStartUnanchored(s) ==
    IF \E i \in 1..Len(s) : KeywordAnywhere(s, i)
    THEN CHOOSE i \in 1..Len(s) :
             KeywordAnywhere(s, i) /\ \A j \in 1..(i - 1) : ~KeywordAnywhere(s, j)
    ELSE 0

MatchStart(s) ==
    IF \E i \in 1..Len(s) : KeywordAt(s, i)
    THEN CHOOSE i \in 1..Len(s) :
             KeywordAt(s, i) /\ \A j \in 1..(i - 1) : ~KeywordAt(s, j)
    ELSE 0

RECURSIVE LazyEnd(_, _)
LazyEnd(s, p) ==
    IF p > Len(s) THEN Len(s)
    ELSE IF s[p] = ";" THEN p
    ELSE IF s[p] = "\n" THEN p - 1
    ELSE LazyEnd(s, p + 1)

MatchEnd(s, i) == LazyEnd(s, SkipSpaces(s, i + 1))

SqlMatch(s) ==
    IF MatchStart(s) = 0 THEN None
    ELSE [start |-> MatchStart(s), end |-> MatchEnd(s, MatchStart(s))]

Group0(s, m) == SubSeq(s, m.start, m.end)

PrimaryCandidateNoAppend(s, m) == Strip(Group0(s, m))

PrimaryCandidate(s, m) ==
    LET g == Strip(Group0(s, m))
    IN  IF ~EndsWith(g, ";") THEN g \o <<";">> ELSE g

-----------------------------------------------------------------------------
(* Fallback extraction, app.py:92-104 *)

RECURSIVE TakeNonBlank(_, _)
TakeNonBlank(ls, j) ==
    IF j > Len(ls) THEN <<>>
    ELSE IF Strip(ls[j]) # <<>>
         THEN <<Strip(ls[j])>> \o TakeNonBlank(ls, j + 1)
         ELSE <<>>

LineContainsKeyword(l) == \E i \in 1..Len(l) : IsKeyword(l[i])

LineStartsWithKeyword(l) == StartsWithKeyword(Strip(l))

\* the candidate that starts at line i: that line and the non-blank lines
\* that follow it, trimmed and joined with single spaces
CandidateFromLine(ls, i) ==
    Strip(JoinSpace(<<Strip(ls[i])>> \o TakeNonBlank(ls, i + 1)))

FallbackCandidateContains(s) ==
    LET ls == SplitLines(s)
    IN  IF \E i \in 1..Len(ls) : LineContainsKeyword(ls[i])
        THEN CandidateFromLine(ls, CHOOSE k \in 1..Len(ls) :
                 /\ LineContainsKeyword(ls[k])
                 /\ \A j \in 1..(k - 1) : ~LineContainsKeyword(ls[j]))
        ELSE <<>>

FallbackCandidate(s) ==
    LET ls == SplitLines(s)
    IN  IF \E i \in 1..Len(ls) : LineStartsWithKeyword(ls[i])
        THEN CandidateFromLine(ls, CHOOSE k \in 1..Len(ls) :
                 /\ LineStartsWithKeyword(ls[k])
                 /\ \A j \in 1..(k - 1) : ~LineStartsWithKeyword(ls[j]))
        ELSE <<>>

-----------------------------------------------------------------------------
(* Final check, app.py:107-113 *)

FenceStripped(f) ==
    IF f # <<>> /\ EndsWith(f, "FENCE")
    THEN Strip(SubSeq(f, 1, Len(f) - 1))
    ELSE f

\* line 109 evaluates its third operand, which reads sql_keywords
ReadsKeywords(f) == f # <<>> /\ ~EndsWith(f, ";")

Terminated(f) ==
    IF f # <<>> /\ ~EndsWith(f, ";") /\ StartsWithKeyword(f)
    THEN f \o <<";">>
    ELSE f

\* the whole of lines 61-118 for a completion the backend returned
Extract(c) ==
    LET cleaned == NoiseStripped(Strip(c))
        m       == SqlMatch(cleaned)
        f       == IF m # None THEN PrimaryCandidate(cleaned, m)
                   ELSE FallbackCandidate(cleaned)
        g       == FenceStripped(f)
    IN  IF m # None /\ ReadsKeywords(g) THEN <<>> ELSE Terminated(g)

-----------------------------------------------------------------------------
(* Exceptions *)

BackendErrors == {"ConnectionError", "ResponseError", "KeyError"}

CatchesConnectionErrorOnly(e) == e = "ConnectionError"

\* app.py:115  except Exception
Catches(e) == TRUE

ClosesUnlessError(c, e) == c # "None" /\ e = "none"

\* app.py:184-186  finally: if conn: conn.close()
ClosesInFinally(c, e) == c # "None"

-----------------------------------------------------------------------------
(* Completions the backend may return *)

SeqsUpTo(S, n) == UNION {[1..k -> S] : k \in 0..n}

ShortCompletions == SeqsUpTo(Alphabet, MaxLen)

Statements ==
    {<<"SELECT", " ">> \o t : t \in SeqsUpTo({"a", " ", "\n", ";"}, MaxTail)}

Openers == {<<"FENCEsql", "\n">>, <<"FENCE", "\n">>}

Closers == {<<"\n", "FENCE">>, <<"FENCE">>}

FencedCompletions ==
    {o \o s \o c : o \in Openers, s \in Statements, c \in Closers}

ReasoningLines == SeqsUpTo({"drop", "a", " "}, MaxReason)

ThinkCompletions ==
    {<<"<think>">> \o r \o <<"</think>", "\n">> \o s :
        r \in ReasoningLines, s \in Statements}

Completions ==
    ShortCompletions \cup Statements \cup FencedCompletions \cup ThinkCompletions

-----------------------------------------------------------------------------
(* The state machine *)

Init ==
    /\ pc = "idle"
    /\ user_question = "What is the total stock quantity of all products?"
    /\ completion = <<>>
    /\ raw_llm_output = <<>>
    /\ cleaned_output = <<>>
    /\ sql_match = None
    /\ sql_keywords = "unbound"
    /\ final_sql = <<>>
    /\ caught = "none"
    /\ generated_sql = <<>>
    /\ conn = "None"
    /\ openConns = 0
    /\ results = "unset"
    /\ exc = "none"
    /\ ui = "none"

Locals == <<completion, raw_llm_output, cleaned_output, sql_match,
            sql_keywords, final_sql, caught>>

Db == <<conn, openConns, results>>

ResetLocals ==
    /\ completion' = <<>>
    /\ raw_llm_output' = <<>>
    /\ cleaned_output' = <<>>
    /\ sql_match' = None
    /\ sql_keywords' = "unbound"
    /\ final_sql' = <<>>
    /\ caught' = "none"

\* app.py:129-138  a rerun of the script with the text the user entered
Rerun ==
    /\ pc = "idle"
    /\ \E q \in {"", "What is the total stock quantity of all products?"} :
          /\ user_question' = q
          /\ pc' = IF q # "" THEN "chat" ELSE "idle"
    /\ ResetLocals
    /\ generated_sql' = <<>>
    /\ results' = "unset"
    /\ ui' = "none"
    /\ exc' = "none"
    /\ conn' = "None"
    /\ UNCHANGED openConns

\* app.py:60-61  the backend answers
ChatReturns ==
    /\ pc = "chat"
    /\ \E c \in Completions :
          /\ completion' = c
          /\ raw_llm_output' = Strip(c)
    /\ pc' = "clean"
    /\ UNCHANGED <<user_question, cleaned_output, sql_match, sql_keywords,
                   final_sql, caught, generated_sql, exc, ui>>
    /\ UNCHANGED Db

\* app.py:60-61  the backend call or the response lookup raises
ChatRaises ==
    /\ pc = "chat"
    /\ \E e \in BackendErrors : exc' = e
    /\ pc' = "except"
    /\ UNCHANGED <<user_question, generated_sql, ui>>
    /\ UNCHANGED Locals
    /\ UNCHANGED Db

\* app.py:69-81
NoiseStrip ==
    /\ pc = "clean"
    /\ cleaned_output' = NoiseStripped(raw_llm_output)
    /\ sql_match' = SqlMatch(NoiseStripped(raw_llm_output))
    /\ pc' = "search"
    /\ UNCHANGED <<user_question, completion, raw_llm_output, sql_keywords,
                   final_sql, caught, generated_sql, exc, ui>>
    /\ UNCHANGED Db

\* app.py:83-88
PrimaryExtract ==
    /\ pc = "search"
    /\ sql_match # None
    /\ final_sql' = PrimaryCandidate(cleaned_output, sql_match)
    /\ pc' = "final"
    /\ UNCHANGED <<user_question, completion, raw_llm_output, cleaned_output,
                   sql_match, sql_keywords, caught, generated_sql, exc, ui>>
    /\ UNCHANGED Db

\* app.py:89-104
FallbackExtract ==
    /\ pc = "search"
    /\ sql_match = None
    /\ sql_keywords' = "bound"
    /\ final_sql' = FallbackCandidate(cleaned_output)
    /\ pc' = "final"
    /\ UNCHANGED <<user_question, completion, raw_llm_output, cleaned_output,
                   sql_match, caught, generated_sql, exc, ui>>
    /\ UNCHANGED Db

\* app.py:106-113
FinalCheck ==
    /\ pc = "final"
    /\ LET g == FenceStripped(final_sql)
       IN  IF ReadsKeywords(g) /\ sql_keywords = "unbound"
           THEN /\ final_sql' = g
                /\ exc' = "NameError"
                /\ pc' = "except"
                /\ UNCHANGED generated_sql
           ELSE /\ final_sql' = Terminated(g)
                /\ generated_sql' = Terminated(g)
                /\ pc' = "returned"
                /\ UNCHANGED exc
    /\ UNCHANGED <<user_question, completion, raw_llm_output, cleaned_output,
                   sql_match, sql_keywords, caught, ui>>
    /\ UNCHANGED Db

\* app.py:115-118
HandleException ==
    /\ pc = "except"
    /\ IF Catches(exc)
       THEN /\ caught' = exc
            /\ exc' = "none"
            /\ generated_sql' = <<>>
            /\ ui' = "ollama_error"
            /\ pc' = "returned"
       ELSE /\ pc' = "outer_except"
            /\ UNCHANGED <<caught, exc, generated_sql, ui>>
    /\ UNCHANGED <<user_question, completion, raw_llm_output, cleaned_output,
                   sql_match, sql_keywords, final_sql>>
    /\ UNCHANGED Db

\* app.py:140-144
ShowSql ==
    /\ pc = "returned"
    /\ generated_sql # <<>>
    /\ ResetLocals
    /\ conn' = "None"
    /\ ui' = "sql"
    /\ pc' = "connect"
    /\ UNCHANGED <<user_question, generated_sql, openConns, results, exc>>

\* app.py:187-188
WarnFailed ==
    /\ pc = "returned"
    /\ generated_sql = <<>>
    /\ ResetLocals
    /\ ui' = "generation_failed"
    /\ pc' = "idle"
    /\ UNCHANGED <<user_question, generated_sql, exc>>
    /\ UNCHANGED Db

\* app.py:146-147
Connect ==
    /\ pc = "connect"
    /\ openConns < MaxConns
    /\ \/ /\ conn' = "open"
          /\ openConns' = openConns + 1
          /\ pc' = "execute"
          /\ UNCHANGED exc
       \/ /\ exc' = "sqlite3.Error"
          /\ pc' = "db_error"
          /\ UNCHANGED <<conn, openConns>>
    /\ UNCHANGED <<user_question, generated_sql, results, ui>>
    /\ UNCHANGED Locals

\* app.py:148-149
Execute ==
    /\ pc = "execute"
    /\ \/ /\ \E r \in {"rows", "empty"} : results' = r
          /\ pc' = "present"
          /\ UNCHANGED exc
       \/ /\ exc' = "sqlite3.Error"
          /\ pc' = "db_error"
          /\ UNCHANGED results
    /\ UNCHANGED <<user_question, generated_sql, conn, openConns, ui>>
    /\ UNCHANGED Locals

\* app.py:151-179
Present ==
    /\ pc = "present"
    /\ \/ /\ results = "rows"
          /\ ui' = "dataframe"
          /\ UNCHANGED exc
       \/ /\ results = "rows"
          /\ exc' = "OtherError"
          /\ UNCHANGED ui
       \/ /\ results = "empty"
          /\ ui' = "no_results"
          /\ UNCHANGED exc
    /\ pc' = "finally"
    /\ UNCHANGED <<user_question, generated_sql>>
    /\ UNCHANGED Locals
    /\ UNCHANGED Db

\* app.py:181-183
DbError ==
    /\ pc = "db_error"
    /\ exc' = "none"
    /\ ui' = "db_error"
    /\ pc' = "finally"
    /\ UNCHANGED <<user_question, generated_sql>>
    /\ UNCHANGED Locals
    /\ UNCHANGED Db

\* app.py:184-186
Finally ==
    /\ pc = "finally"
    /\ IF ClosesInFinally(conn, exc)
       THEN /\ conn' = "closed"
            /\ openConns' = IF conn = "open" THEN openConns - 1 ELSE openConns
       ELSE UNCHANGED <<conn, openConns>>
    /\ pc' = IF exc # "none" THEN "outer_except" ELSE "idle"
    /\ UNCHANGED <<user_question, generated_sql, results, exc, ui>>
    /\ UNCHANGED Locals

\* app.py:190-192
OuterExcept ==
    /\ pc = "outer_except"
    /\ ui' = "unexpected_error"
    /\ pc' = "idle"
    /\ UNCHANGED <<user_question, generated_sql, exc>>
    /\ UNCHANGED Locals
    /\ UNCHANGED Db

Next ==
    \/ Rerun
    \/ ChatReturns
    \/ ChatRaises
    \/ NoiseStrip
    \/ PrimaryExtract
    \/ FallbackExtract
    \/ FinalCheck
    \/ HandleException
    \/ ShowSql
    \/ WarnFailed
    \/ Connect
    \/ Execute
    \/ Present
    \/ DbError
    \/ Finally
    \/ OuterExcept

Spec == Init /\ [][Next]_vars

-----------------------------------------------------------------------------
(* Properties of generate_sql_qwen and of the question cycle *)

Returned == pc = "returned"

\* the backend answered and no exception was handled
Extracted == pc = "returned" /\ caught = "none"

IsMarkup(t) == IsThinkTag(t) \/ IsFenceOrLabel(t)

NoMarkup(s) == \A i \in 1..Len(s) : ~IsMarkup(s[i])

NoKeywordLine(s) ==
    \A i \in 1..Len(SplitLines(s)) : ~LineStartsWithKeyword(SplitLines(s)[i])

\* C1: a non-empty result of generate_sql_qwen ends with exactly one
\* terminator: its last character is ';' and the one before it is not.
C1_ExactlyOneTerminator ==
    (Returned /\ generated_sql # <<>>) =>
        /\ EndsWith(generated_sql, ";")
        /\ Len(generated_sql) >= 2 => generated_sql[Len(generated_sql) - 1] # ";"

\* C2: a non-empty result of generate_sql_qwen, trimmed, begins
\* (case-insensitively) with one of the seven recognized keywords, on the
\* primary path, on the fallback path and after the fence is stripped.
C2_BeginsWithKeyword ==
    (Returned /\ generated_sql # <<>>) => StartsWithKeyword(Strip(generated_sql))

C2_Witness ==
    /\ Returned
    /\ generated_sql # <<>>
    /\ sql_match = None
    /\ EndsWith(FallbackCandidate(cleaned_output), "FENCE")

\* exactly one clean statement: a keyword, white space, and a single ';' that
\* is the last character; no fence, label or tag
CleanStatement(c) ==
    /\ Len(c) >= 3
    /\ IsKeyword(c[1])
    /\ IsSpace(c[2])
    /\ c[Len(c)] = ";"
    /\ \A i \in 1..(Len(c) - 1) : c[i] # ";"
    /\ NoMarkup(c)

\* C3: a completion that is exactly one clean statement, on one line or on
\* several, is returned unchanged, and extracting from the result returns
\* the result again.
C3_CleanStatementUnchanged ==
    (Extracted /\ CleanStatement(completion)) =>
        /\ generated_sql = completion
        /\ Extract(generated_sql) = generated_sql

\* a statement between an opening and a closing fence
Inner(c) == Strip(SubSeq(c, 2, Len(c) - 1))

FencedStatement(c) ==
    /\ Len(c) >= 5
    /\ c[1] \in {"FENCE", "FENCEsql"}
    /\ c[Len(c)] = "FENCE"
    /\ Len(Inner(c)) >= 3
    /\ IsKeyword(Inner(c)[1])
    /\ IsSpace(Inner(c)[2])
    /\ NoMarkup(Inner(c))
    /\ \A i \in 1..(Len(Inner(c)) - 1) : Inner(c)[i] # ";"

\* C4: for a statement wrapped in a markdown fence, the closing fence on a
\* line of its own or directly after the statement, with or without ';',
\* the result is the statement and holds no fence marker anywhere.
C4_FenceRemoved ==
    (Extracted /\ FencedStatement(completion)) =>
        /\ generated_sql # <<>>
        /\ \A i \in 1..Len(generated_sql) :
              generated_sql[i] \notin {"FENCE", "FENCEsql"}

C6_NeverPropagates ==
    /\ pc = "outer_except" => exc \notin (BackendErrors \cup {"NameError"})
    /\ (Returned /\ caught # "none") => (generated_sql = <<>> /\ exc = "none")
    /\ pc = "except" => exc \in (BackendErrors \cup {"NameError"})

C6_Witness ==
    /\ Returned
    /\ caught \in BackendErrors
    /\ generated_sql = <<>>

\* C7: a connection is opened only for a non-empty statement, and every
\* opened connection is closed before the cycle ends, on every path; outside
\* the execution of a statement no connection is open.
C7_ConnectionScoped ==
    /\ openConns <= 1
    /\ openConns > 0 =>
          /\ generated_sql # <<>>
          /\ conn = "open"
          /\ pc \in {"execute", "present", "db_error", "finally"}
    /\ pc \in {"connect", "execute", "present", "db_error", "finally"} =>
          generated_sql # <<>>
    /\ pc \in {"idle", "outer_except"} => (openConns = 0 /\ conn # "open")

C7_Witness ==
    /\ pc = "idle"
    /\ ui = "db_error"
    /\ conn = "closed"
    /\ openConns = 0

\* the end of the capture as C8 states it: the first ';' that follows, or
\* the end of the whole text
RECURSIVE ThroughTerminatorOrText(_, _)
ThroughTerminatorOrText(s, p) ==
    IF p > Len(s) THEN Len(s)
    ELSE IF s[p] = ";" THEN p
    ELSE ThroughTerminatorOrText(s, p + 1)

CandidateToEndOfText(s) ==
    LET g == Strip(SubSeq(s, MatchStart(s),
                          ThroughTerminatorOrText(s, MatchStart(s) + 1)))
    IN  IF EndsWith(g, ";") THEN g ELSE g \o <<";">>

\* C8: the primary candidate starts at the first line that starts with a
\* keyword followed by white space and extends through the first ';' that
\* follows, or through the end of the whole text, spanning line breaks.
C8_CaptureSpansLines ==
    (pc = "final" /\ sql_match # None) =>
        final_sql = CandidateToEndOfText(cleaned_output)

\* a reasoning block on the first line, closed at the line's end, and the
\* real statement after it
ThinkBlock(c) ==
    /\ Len(c) >= 4
    /\ c[1] = "<think>"
    /\ \E k \in 2..(Len(c) - 1) :
          /\ c[k] = "</think>"
          /\ c[k + 1] = "\n"
          /\ \A j \in 2..Len(c) : j # k => ~IsThinkTag(c[j])
          /\ \A j \in 2..k : c[j] # "\n"

CloseTag(c) == CHOOSE k \in 2..Len(c) : c[k] = "</think>"

Reasoning(c) == SubSeq(c, 2, CloseTag(c) - 1)

Following(c) == SubSeq(c, CloseTag(c) + 2, Len(c))

RealStatement(s) ==
    /\ Len(Strip(s)) >= 3
    /\ IsKeyword(s[1])
    /\ IsSpace(s[2])

\* the reasoning line is a keyword, white space and further text
KeywordPhrase(r) ==
    /\ Len(r) >= 3
    /\ IsKeyword(r[1])
    /\ IsSpace(r[2])
    /\ \E i \in 3..Len(r) : ~IsSpace(r[i])

====
